---- MODULE Spec2Model ----
(***************************************************************************)
(* A model of ebay-search-tool.py: one run of main() as a state machine    *)
(* (request -> parse -> transform -> write), with the functions            *)
(* get_api_response, parse_items, process_item and save_to_excel as        *)
(* operators computed the way the Python code computes them.               *)
(*                                                                         *)
(* Representation of Python values:                                        *)
(*   - a JSON object (dict read with .get / [] / in) is a TLA+ function    *)
(*     whose domain is its set of keys; {} is EmptyDict;                   *)
(*   - a JSON array (list) is a sequence; l[0] is l[1] and raises          *)
(*     IndexError on the empty list;                                       *)
(*   - a string the code only passes through is a TLA+ string;             *)
(*   - a string the code looks into (the shipping cost handed to float(),  *)
(*     the listing type matched by 'containing', the formatted end time)   *)
(*     is the sequence of its pieces, whose concatenation is the string;   *)
(*   - the dict returned by process_item keeps its insertion order:        *)
(*     [keys |-> <<...>>, vals |-> [key |-> value]].                       *)
(***************************************************************************)
EXTENDS Integers, Sequences, FiniteSets, TLC

VARIABLES
    pc,         \* where main() is: "request", "parse", "transform", "write",
                \* or ended: "done", "exited" (exit()), "crashed" (uncaught exception)
    response,   \* what the server answers to the one GET (the environment's choice)
    data,       \* main's `data`: the decoded JSON
    items,      \* main's `items`
    results,    \* main's `results`
    file,       \* ebay_listings.xlsx: NoFile until written
    out,        \* the lines printed so far
    getCount,   \* number of HTTP GETs issued so far
    stageLog    \* the stages entered so far, in order

vars == <<pc, response, data, items, results, file, out, getCount, stageLog>>

----------------------------------------------------------------------------
(* Bounds of the model *)

\* longest item list a response carries (above the 50 of items[:50])
MaxItems == 52
\* longest shipping-cost numeral
MaxCostLen == 5
\* first and last year of the end times drawn
MinYear == 2024
MaxYear == 2025
\* most rows handed to save_to_excel on its own
MaxRows == 3

----------------------------------------------------------------------------
(* Python built-ins *)

EmptyDict == <<>>
None == "None"
NoFile == [written |-> FALSE]

\* dict.get(k, default)
Get(d, k, default) == IF k \in DOMAIN d THEN d[k] ELSE default

Min(a, b) == IF a <= b THEN a ELSE b

\* l[:n]
Prefix(l, n) == SubSeq(l, 1, Min(Len(l), n))

\* 'N/A' as a sequence of characters
NA == <<"N", "/", "A">>
FREE == <<"F", "R", "E", "E">>

DigitChars == <<"0", "1", "2", "3", "4", "5", "6", "7", "8", "9">>
IsDigit(c) == \E i \in 1..10 : DigitChars[i] = c
DigitVal(c) == (CHOOSE i \in 1..10 : DigitChars[i] = c) - 1

\* str(n) for n >= 0, as characters
RECURSIVE IntChars(_)
IntChars(n) == IF n < 10 THEN <<DigitChars[n + 1]>>
               ELSE IntChars(n \div 10) \o <<DigitChars[(n % 10) + 1]>>

\* value of a sequence of digits
RECURSIVE DigitsVal(_)
DigitsVal(ds) == IF Len(ds) = 0 THEN 0
                 ELSE 10 * DigitsVal(SubSeq(ds, 1, Len(ds) - 1)) + DigitVal(ds[Len(ds)])

----------------------------------------------------------------------------
(* float(s) and f"{x:.2f}" on a numeral made of digits and a point *)

DotCount(cs) == Cardinality({i \in 1..Len(cs) : cs[i] = "."})

\* float(cs) does not raise ValueError: digits with at most one point and at
\* least one digit ("7", "7.", ".7", "0.70"; not "", ".", "7.7.").
FloatOk(cs) ==
    /\ \A i \in 1..Len(cs) : IsDigit(cs[i]) \/ cs[i] = "."
    /\ DotCount(cs) <= 1
    /\ \E i \in 1..Len(cs) : IsDigit(cs[i])

DotPos(cs) == IF DotCount(cs) = 0 THEN Len(cs) + 1
              ELSE CHOOSE i \in 1..Len(cs) : cs[i] = "."

IntPart(cs) == SubSeq(cs, 1, DotPos(cs) - 1)
FracPart(cs) == SubSeq(cs, DotPos(cs) + 1, Len(cs))

\* the k-th decimal of the numeral (0 when it has fewer)
FracDigit(cs, k) == IF k <= Len(FracPart(cs)) THEN DigitVal(FracPart(cs)[k]) ELSE 0

\* float(cs) rounded to hundredths, in hundredths.  The third decimal decides;
\* a numeral exactly half way (third decimal 5, nothing after) is rounded by
\* its binary value and is kept out of the numerals drawn (CostChars).
RoundedCents(cs) ==
    100 * DigitsVal(IntPart(cs)) + 10 * FracDigit(cs, 1) + FracDigit(cs, 2)
    + (IF FracDigit(cs, 3) >= 5 THEN 1 ELSE 0)

\* f"{float(cs):.2f}"
FormatTwoDecimals(cs) ==
    LET c == RoundedCents(cs)
    IN  IntChars(c \div 100) \o <<".">>
        \o <<DigitChars[((c % 100) \div 10) + 1], DigitChars[(c % 10) + 1]>>

----------------------------------------------------------------------------
(* datetime, pytz.timezone('US/Central') and strftime *)

IsLeap(y) == (y % 4 = 0) /\ ((y % 100 # 0) \/ (y % 400 = 0))

DaysInMonth(y, m) ==
    IF m = 2 THEN (IF IsLeap(y) THEN 29 ELSE 28)
    ELSE IF m \in {4, 6, 9, 11} THEN 30 ELSE 31

\* datetime._days_before_year
DaysBeforeYear(y) ==
    (y - 1) * 365 + ((y - 1) \div 4) - ((y - 1) \div 100) + ((y - 1) \div 400)

\* datetime._DAYS_BEFORE_MONTH: the days of a common year before each month
DAYS_BEFORE_MONTH == <<0, 31, 59, 90, 120, 151, 181, 212, 243, 273, 304, 334>>

\* datetime._days_before_month
DaysBeforeMonth(y, m) == DAYS_BEFORE_MONTH[m] + (IF m > 2 /\ IsLeap(y) THEN 1 ELSE 0)

\* date.toordinal(): 0001-01-01 is day 1
Ordinal(y, m, d) == DaysBeforeYear(y) + DaysBeforeMonth(y, m) + d

\* date.fromordinal(n), for the years the model can reach (the year before
\* MinYear to the year after MaxYear): the month the day falls in
FromOrdinal(n) ==
    CHOOSE date \in {[Y |-> ym[1], M |-> ym[2], D |-> n - Ordinal(ym[1], ym[2], 0)] :
                        ym \in ((MinYear - 1)..(MaxYear + 1)) \X (1..12)} :
        date.D >= 1 /\ date.D <= DaysInMonth(date.Y, date.M)

\* hours since 0001-01-01 00:00 of a datetime's date and hour
HourStamp(y, m, d, h) == (Ordinal(y, m, d) - 1) * 24 + h

\* pytz's transition table of US/Central (tz database), the part around the
\* years of the model: the UTC instant of each change and the UTC offset, in
\* hours, in effect from it.
CentralTransitions ==
    << [at |-> HourStamp(2022, 11, 6, 7), offset |-> -6],
       [at |-> HourStamp(2023, 3, 12, 8), offset |-> -5],
       [at |-> HourStamp(2023, 11, 5, 7), offset |-> -6],
       [at |-> HourStamp(2024, 3, 10, 8), offset |-> -5],
       [at |-> HourStamp(2024, 11, 3, 7), offset |-> -6],
       [at |-> HourStamp(2025, 3, 9, 8),  offset |-> -5],
       [at |-> HourStamp(2025, 11, 2, 7), offset |-> -6],
       [at |-> HourStamp(2026, 3, 8, 8),  offset |-> -5],
       [at |-> HourStamp(2026, 11, 1, 7), offset |-> -6],
       [at |-> HourStamp(2027, 3, 14, 8), offset |-> -5],
       [at |-> HourStamp(2027, 11, 7, 7), offset |-> -6] >>

\* US/Central taken as a fixed UTC-6, daylight saving time forgotten
CentralOffsetNoDst(stamp) == -6

\* tz.fromutc: the offset of the last transition at or before the instant
CentralOffset(stamp) ==
    LET i == CHOOSE k \in 1..Len(CentralTransitions) :
                 /\ CentralTransitions[k].at <= stamp
                 /\ (k = Len(CentralTransitions) \/ stamp < CentralTransitions[k + 1].at)
    IN  CentralTransitions[i].offset

\* the datetime `off` hours after t (minutes and seconds are untouched);
\* the stamp and the date are worked out once each
ShiftHours(t, off) ==
    CHOOSE shifted \in
        UNION {{[Y |-> date.Y, M |-> date.M, D |-> date.D,
                 h |-> stamp % 24, m |-> t.m, s |-> t.s] :
                    date \in {FromOrdinal((stamp \div 24) + 1)}} :
               stamp \in {HourStamp(t.Y, t.M, t.D, t.h) + off}} : TRUE

\* end_time_utc.astimezone(cst) for an aware datetime given in UTC
AsCentral(utc) == ShiftHours(utc, CentralOffset(HourStamp(utc.Y, utc.M, utc.D, utc.h)))

Pad2(n) == <<DigitChars[(n \div 10) + 1], DigitChars[(n % 10) + 1]>>

\* strftime('%Y-%m-%d %I:%M:%S %p')
Strftime(t) ==
    IntChars(t.Y) \o <<"-">> \o Pad2(t.M) \o <<"-">> \o Pad2(t.D) \o <<" ">>
    \o Pad2(IF t.h % 12 = 0 THEN 12 ELSE t.h % 12) \o <<":">> \o Pad2(t.m)
    \o <<":">> \o Pad2(t.s) \o <<" ">>
    \o (IF t.h < 12 THEN <<"A", "M">> ELSE <<"P", "M">>)

----------------------------------------------------------------------------
(* get_api_response *)

\* What a function call comes to: it returns a value, calls exit() after
\* printing, or raises an exception nobody catches.
Return(v, printed) == [kind |-> "return", value |-> v, printed |-> printed]
Exit(printed) == [kind |-> "exit", value |-> None, printed |-> printed]
Raise(exc, printed) == [kind |-> "raise", value |-> exc, printed |-> printed]

\* get_api_response without its status check (lines 12-14 left out)
GetApiResponseNoStatusCheck(r) ==
    IF r.kind = "neterror" THEN Raise("ConnectionError", <<>>)
    ELSE LET status_line == <<"Status Code:", r.status_code>>
         IN  IF ~r.is_json
             THEN Exit(<<status_line, <<"Error parsing JSON response:">>>>)
             ELSE Return(r.json, <<status_line>>)

\* get_api_response(app_id, api_endpoint, params) on the server's answer r:
\* r.kind = "neterror" when requests.get itself raises (no answer at all).
GetApiResponse(r) ==
    IF r.kind = "neterror" THEN Raise("ConnectionError", <<>>)
    ELSE LET status_line == <<"Status Code:", r.status_code>>
         IN  IF r.status_code # 200
             THEN Exit(<<status_line, <<"HTTP Error:", r.status_code>>>>)
             ELSE IF ~r.is_json
                  THEN Exit(<<status_line, <<"Error parsing JSON response:">>>>)
                  ELSE Return(r.json, <<status_line>>)

----------------------------------------------------------------------------
(* parse_items *)

\* the limit of items[:50]
ItemLimit == 50

\* the line printed for one entry of errorMessage[0]['error']
ErrorLine(error) == <<"Error Code:", error["errorId"][1], "Message:", error["message"][1]>>

\* parse_items looking at the items before the errorMessage
ParseItemsErrorLast(d) ==
    IF "findItemsAdvancedResponse" \in DOMAIN d
    THEN IF Len(d["findItemsAdvancedResponse"]) = 0 THEN Raise("IndexError", <<>>)
         ELSE LET response_data == d["findItemsAdvancedResponse"][1]
                  found == IF "searchResult" \in DOMAIN response_data
                              /\ Len(response_data["searchResult"]) > 0
                           THEN Get(response_data["searchResult"][1], "item", <<>>)
                           ELSE <<>>
                  limited == Prefix(found, ItemLimit)
              IN  IF Len(limited) > 0 THEN Return(limited, <<>>)
                  ELSE IF "errorMessage" \in DOMAIN response_data
                  THEN LET errors == response_data["errorMessage"][1]["error"]
                       IN  Exit([i \in 1..Len(errors) |-> ErrorLine(errors[i])])
                  ELSE Exit(<< <<"No items found matching your criteria.">> >>)
    ELSE Exit(<< <<"Unexpected response format.">> >>)

\* parse_items without its `if not items` exit (lines 36-38 left out)
ParseItemsNoEmptyCheck(d) ==
    IF "findItemsAdvancedResponse" \in DOMAIN d
    THEN IF Len(d["findItemsAdvancedResponse"]) = 0 THEN Raise("IndexError", <<>>)
         ELSE LET response_data == d["findItemsAdvancedResponse"][1]
              IN  IF "errorMessage" \in DOMAIN response_data
                  THEN LET errors == response_data["errorMessage"][1]["error"]
                       IN  Exit([i \in 1..Len(errors) |-> ErrorLine(errors[i])])
                  ELSE IF "searchResult" \notin DOMAIN response_data
                       THEN Raise("KeyError", <<>>)
                       ELSE IF Len(response_data["searchResult"]) = 0
                            THEN Raise("IndexError", <<>>)
                            ELSE Return(Prefix(Get(response_data["searchResult"][1], "item", <<>>),
                                               ItemLimit), <<>>)
    ELSE Exit(<< <<"Unexpected response format.">> >>)

ParseItems(d) ==
    IF "findItemsAdvancedResponse" \in DOMAIN d
    THEN IF Len(d["findItemsAdvancedResponse"]) = 0 THEN Raise("IndexError", <<>>)
         ELSE LET response_data == d["findItemsAdvancedResponse"][1]
              IN  IF "errorMessage" \in DOMAIN response_data
                  THEN LET errors == response_data["errorMessage"][1]["error"]
                       IN  Exit([i \in 1..Len(errors) |-> ErrorLine(errors[i])])
                  ELSE IF "searchResult" \notin DOMAIN response_data
                       THEN Raise("KeyError", <<>>)
                       ELSE IF Len(response_data["searchResult"]) = 0
                            THEN Raise("IndexError", <<>>)
                            ELSE LET found == Get(response_data["searchResult"][1], "item", <<>>)
                                     limited == Prefix(found, ItemLimit)
                                 IN  IF Len(limited) = 0
                                     THEN Exit(<< <<"No items found matching your criteria.">> >>)
                                     ELSE Return(limited, <<>>)
    ELSE Exit(<< <<"Unexpected response format.">> >>)

----------------------------------------------------------------------------
(* process_item *)

\* the keys of the returned dict, in the order of the dict literal
RecordKeys == <<"Title", "Price", "Currency", "Shipping Price", "Listing Type",
                "Item Condition", "End Time", "URL">>

\* the '' that item.get(...).get('endTime', ['']) defaults to
EmptyTime == [kind |-> "empty"]

\* the literals of `shipping_price in ['0.0', '0.00', '0']`
FreeLiterals == { <<"0", ".", "0">>, <<"0", ".", "0", "0">>, <<"0">> }

\* lines 55-59: the shipping price from the '__value__' read (NA by default)
ShippingPrice(raw) ==
    IF raw \in FreeLiterals THEN FREE
    ELSE IF raw # NA THEN FormatTwoDecimals(raw)
    ELSE raw

\* lines 66-76: the end time from the string read.  parser.parse gives an
\* aware datetime for a stamp ending in Z and a naive one for a stamp without
\* a zone; astimezone reads a naive datetime as the machine's local time,
\* `sys` hours from UTC.
EndTimeFormatted(end_time_str, sys) ==
    IF end_time_str.kind # "empty"
    THEN CHOOSE end_time_formatted \in
            {Strftime(end_time_cst) :
                end_time_cst \in
                    {AsCentral(end_time_utc) :
                        end_time_utc \in
                            {IF end_time_str.tz = "Z" THEN end_time_str.t
                             ELSE ShiftHours(end_time_str.t, 0 - sys)}}} : TRUE
    ELSE NA

\* process_item(item) on a machine whose local time is `sys` hours from UTC
ProcessItem(item, sys) ==
    LET titleL == Get(item, "title", <<"N/A">>)
        urlL == Get(item, "viewItemURL", <<"N/A">>)
        statusL == Get(item, "sellingStatus", <<EmptyDict>>)
        priceL == Get(statusL[1], "currentPrice", <<EmptyDict>>)
        price_info == priceL[1]
        shipL == Get(item, "shippingInfo", <<EmptyDict>>)
        costL == Get(shipL[1], "shippingServiceCost", <<EmptyDict>>)
        raw_shipping == Get(costL[1], "__value__", NA)
        listL == Get(item, "listingInfo", <<EmptyDict>>)
        typeL == Get(listL[1], "listingType", << <<"N/A">> >>)
        condL == Get(item, "condition", <<EmptyDict>>)
        nameL == Get(condL[1], "conditionDisplayName", <<"N/A">>)
        timeL == Get(listL[1], "endTime", <<EmptyTime>>)
    IN  IF Len(titleL) = 0 \/ Len(urlL) = 0 THEN Raise("IndexError", <<>>)
        ELSE IF Len(statusL) = 0 \/ Len(priceL) = 0 THEN Raise("IndexError", <<>>)
        ELSE IF Len(shipL) = 0 \/ Len(costL) = 0 THEN Raise("IndexError", <<>>)
        ELSE IF raw_shipping \notin FreeLiterals /\ raw_shipping # NA
                /\ ~FloatOk(raw_shipping) THEN Raise("ValueError", <<>>)
        ELSE IF Len(listL) = 0 \/ Len(typeL) = 0 THEN Raise("IndexError", <<>>)
        ELSE IF Len(condL) = 0 \/ Len(nameL) = 0 THEN Raise("IndexError", <<>>)
        ELSE IF Len(timeL) = 0 THEN Raise("IndexError", <<>>)
        ELSE IF timeL[1].kind = "garbage" THEN Raise("ValueError", <<>>)
        ELSE Return(
            [keys |-> RecordKeys,
             vals |-> [k \in {RecordKeys[i] : i \in 1..Len(RecordKeys)} |->
                CASE k = "Title" -> titleL[1]
                  [] k = "Price" -> Get(price_info, "__value__", "N/A")
                  [] k = "Currency" -> Get(price_info, "@currencyId", "N/A")
                  [] k = "Shipping Price" -> ShippingPrice(raw_shipping)
                  [] k = "Listing Type" -> typeL[1]
                  [] k = "Item Condition" -> nameL[1]
                  [] k = "End Time" -> EndTimeFormatted(timeL[1], sys)
                  [] k = "URL" -> urlL[1]]],
            <<>>)

----------------------------------------------------------------------------
(* save_to_excel *)

\* the column list of the reordering df[[...]]
ColumnOrder == <<"Title", "Price", "Currency", "Shipping Price", "Listing Type",
                 "Item Condition", "End Time", "URL">>

\* the columns whose cells the model keeps as pieces of text
PieceColumns == {"Shipping Price", "Listing Type", "End Time"}

Range(seq) == {seq[i] : i \in 1..Len(seq)}

\* the entries of b that a does not have, in b's order
RECURSIVE NewKeys(_, _)
NewKeys(a, b) ==
    IF Len(b) = 0 THEN <<>>
    ELSE IF b[1] \in Range(a) THEN NewKeys(a, Tail(b))
         ELSE <<b[1]>> \o NewKeys(Append(a, b[1]), Tail(b))

\* pd.DataFrame(list of dicts).columns: the keys in order of first appearance;
\* `seen` holds the columns of the records before the i-th
RECURSIVE ColumnsFrom(_, _, _)
ColumnsFrom(rs, i, seen) ==
    IF i > Len(rs) THEN seen
    ELSE CHOOSE cols \in {ColumnsFrom(rs, i + 1, more) :
                             more \in {seen \o NewKeys(seen, rs[i].keys)}} : TRUE
FrameColumns(rs) == ColumnsFrom(rs, 1, <<>>)

\* len(str(v)) of a cell
RECURSIVE PiecesLen(_)
PiecesLen(ps) == IF Len(ps) = 0 THEN 0 ELSE Len(ps[1]) + PiecesLen(Tail(ps))
StrLen(col, v) == IF col \in PieceColumns THEN PiecesLen(v) ELSE Len(v)

\* max() of a non-empty sequence of numbers
MaxOf(ns) == CHOOSE x \in Range(ns) : \A y \in Range(ns) : y <= x

Letters == <<"A", "B", "C", "D", "E", "F", "G", "H", "I", "J", "K", "L", "M",
             "N", "O", "P", "Q", "R", "S", "T", "U", "V", "W", "X", "Y", "Z">>

\* colnum_string(n): the while loop, with `string` carried along
RECURSIVE ColnumLoop(_, _)
ColnumLoop(n, string) ==
    IF n >= 0
    THEN ColnumLoop((n \div 26) - 1, <<Letters[(n % 26) + 1]>> \o string)
    ELSE string
ColnumString(n) == ColnumLoop(n, <<>>)

\* df.columns.get_loc(name): the 0-based position of the column
GetLoc(columns, name) == (CHOOSE i \in 1..Len(columns) : columns[i] = name) - 1

green_format == [bg_color |-> "#C6EFCE", font_color |-> "#006100"]
yellow_format == [bg_color |-> "#FFEB9C", font_color |-> "#9C6500"]

\* the range started at the header row (start_row in place of start_row + 1)
CellRangeFromHeader(col_letter, max_row) ==
    LET start_row == 1
        end_row == max_row
    IN  [first_col |-> col_letter, first_row |-> start_row,
         last_col |-> col_letter, last_row |-> end_row + 1]

\* lines 131-133: the range 'E2:E<n+1>' as its two corners in A1 notation
CellRange(col_letter, max_row) ==
    LET start_row == 1
        end_row == max_row
    IN  [first_col |-> col_letter, first_row |-> start_row + 1,
         last_col |-> col_letter, last_row |-> end_row + 1]

\* lines 136-145: the two conditional formats, in the order they are added
ConditionalFormats(cell_range) ==
    << [range |-> cell_range, type |-> "text", criteria |-> "containing",
        value |-> "FixedPrice", format |-> green_format],
       [range |-> cell_range, type |-> "text", criteria |-> "containing",
        value |-> "Auction", format |-> yellow_format] >>

\* lines 148-152: the width set for each column
ColumnWidths(columns, rs) ==
    [idx \in 1..Len(columns) |->
        MaxOf([i \in 1..Len(rs) |-> StrLen(columns[idx], rs[i].vals[columns[idx]])]) + 5]

\* the sheet with its data rows in reverse order
SheetRowsReversed(columns, rs) ==
    <<columns>> \o [i \in 1..Len(rs) |->
                      [j \in 1..Len(columns) |-> rs[Len(rs) + 1 - i].vals[columns[j]]]]

\* df.to_excel(writer, index=False): the header row, then one row per record
SheetRows(columns, rs) ==
    <<columns>> \o [i \in 1..Len(rs) |-> [j \in 1..Len(columns) |-> rs[i].vals[columns[j]]]]

\* the reordering left out: the frame keeps the columns it was built with
SelectColumnsSkipped(frame_columns) == frame_columns

\* df = df[[...]]: the columns after the reordering
SelectColumns(frame_columns) == ColumnOrder

\* save_to_excel(results): the workbook written, or the exit
SaveToExcel(rs) ==
    LET frame_columns == FrameColumns(rs)
    IN  IF Len(rs) = 0 \/ Len(frame_columns) = 0
        THEN Exit(<< <<"No data to save to Excel.">> >>)
        ELSE IF ~(Range(ColumnOrder) \subseteq Range(frame_columns))
        THEN Raise("KeyError", <<>>)
        ELSE LET columns == SelectColumns(frame_columns)
                 max_row == Len(rs)
                 letter == ColnumString(GetLoc(columns, "Listing Type"))
             IN  Return([written |-> TRUE,
                         sheet |-> "Sheet1",
                         cells |-> SheetRows(columns, rs),
                         conditional |-> ConditionalFormats(CellRange(letter, max_row)),
                         widths |-> ColumnWidths(columns, rs)],
                        << <<"Data saved to ebay_listings.xlsx with conditional formatting.">> >>)

----------------------------------------------------------------------------
(* The inputs drawn: raw result entries *)

Stamp(Y, M, D, h, m, s, tz) ==
    [kind |-> "stamp", tz |-> tz, t |-> [Y |-> Y, M |-> M, D |-> D, h |-> h, m |-> m, s |-> s]]
GarbageTime == [kind |-> "garbage"]

Value(v) == "__value__" :> v
Money(v, c) == ("__value__" :> v) @@ ("@currencyId" :> c)

\* a complete entry, as the Finding API sends it
FullItem(title, price, cost, type, time) ==
    [title |-> <<title>>,
     viewItemURL |-> <<"https://www.ebay.com/itm/1">>,
     sellingStatus |-> <<[currentPrice |-> <<Money(price, "USD")>>]>>,
     shippingInfo |-> <<[shippingServiceCost |-> <<Value(cost)>>]>>,
     listingInfo |-> <<[listingType |-> <<type>>, endTime |-> <<time>>]>>,
     condition |-> <<[conditionDisplayName |-> <<"Used">>]>>]

\* entries process_item returns a record for
GoodPool ==
    << FullItem("N64 console", "59.99", <<"0", ".", "0">>, <<"FixedPrice">>,
                Stamp(MaxYear, 3, 10, 8, 0, 0, "Z")),
       FullItem("N64 bundle", "20.0", <<"7", ".", "7">>, <<"Auction">>,
                Stamp(MaxYear, 11, 2, 6, 59, 59, "Z")),
       EmptyDict,
       [title |-> <<"N64 parts">>,
        sellingStatus |-> <<EmptyDict>>,
        shippingInfo |-> <<[shippingServiceCost |-> <<EmptyDict>>]>>,
        listingInfo |-> <<EmptyDict>>,
        condition |-> <<EmptyDict>>],
       [title |-> <<"N64 games">>,
        sellingStatus |-> <<[currentPrice |-> <<Value("5.0")>>]>>,
        shippingInfo |-> <<[shippingServiceCost |-> <<Value(<<"0", ".", "0", "0">>)>>]>>,
        listingInfo |-> <<[listingType |-> << <<"Auction", "WithBIN">> >>,
                           endTime |-> <<Stamp(MaxYear, 1, 1, 0, 7, 5, "naive")>>]>>] >>

\* entries process_item raises on
BadPool ==
    << [title |-> <<>>],
       [title |-> <<"N64">>, shippingInfo |-> <<[shippingServiceCost |-> <<Value(<<".">>)>>]>>] >>

\* n good entries, cycling through GoodPool from position start
GoodList(n, start) ==
    [i \in 1..n |-> GoodPool[((start + i - 2) % Len(GoodPool)) + 1]]

\* the item lists of the responses drawn: every length up to MaxItems, and
\* lists with one entry that process_item raises on
ItemLists ==
    {GoodList(n, start) : n \in 0..MaxItems, start \in 1..Len(GoodPool)}
    \cup {[GoodList(n, 1) EXCEPT ![k] = BadPool[b]] :
            n \in {1, 3}, k \in {1}, b \in 1..Len(BadPool)}
    \cup {[GoodList(3, 2) EXCEPT ![3] = BadPool[b]] : b \in 1..Len(BadPool)}

(* The inputs drawn: decoded bodies and server answers *)

ErrorMessage ==
    <<[error |-> <<[errorId |-> <<"11002">>, message |-> <<"Invalid Application">>],
                   [errorId |-> <<"2">>, message |-> <<"Keywords required">>]>>]>>

Envelope(response_data) == [findItemsAdvancedResponse |-> <<response_data>>]
SearchResult(list) == [searchResult |-> <<[item |-> list]>>]

\* bodies other than a plain search result
OddBodies ==
    { EmptyDict,
      [errorMessage |-> ErrorMessage],
      [findItemsAdvancedResponse |-> <<>>],
      Envelope([errorMessage |-> ErrorMessage]),
      Envelope([errorMessage |-> ErrorMessage, searchResult |-> <<[item |-> GoodList(2, 1)]>>]),
      Envelope([ack |-> <<"Success">>]),
      Envelope([searchResult |-> <<>>]),
      Envelope([searchResult |-> <<[count |-> "0"]>>]) }

HttpAnswer(status, is_json, json) ==
    [kind |-> "http", status_code |-> status, is_json |-> is_json, json |-> json]

Responses ==
    { [kind |-> "neterror"] }
    \cup {HttpAnswer(st, FALSE, None) : st \in {200, 404, 500}}
    \cup {HttpAnswer(st, TRUE, d) : st \in {200, 500}, d \in OddBodies}
    \cup {HttpAnswer(404, TRUE, Envelope(SearchResult(GoodList(2, 1))))}
    \cup {HttpAnswer(200, TRUE, Envelope(SearchResult(l))) : l \in ItemLists}

\* the machine's local UTC offsets drawn, in hours
SysOffsets == {-6, 0}

----------------------------------------------------------------------------
(* main() *)

Init ==
    /\ pc = "request"
    /\ response \in [answer : Responses, sys : SysOffsets]
    /\ data = None
    /\ items = <<>>
    /\ results = <<>>
    /\ file = NoFile
    /\ out = <<>>
    /\ getCount = 0
    /\ stageLog = <<>>

\* where main() is after a call that came to r, when a return leads to `next`
After(r, next) ==
    CASE r.kind = "return" -> next
      [] r.kind = "exit" -> "exited"
      [] r.kind = "raise" -> "crashed"

\* line 194: a for loop over no items runs no turn
LoopStart(its) == IF Len(its) = 0 THEN "write" ELSE "transform"

\* main() asking again after an answer that is not a 200 (a retry loop)
RequestWithRetry ==
    /\ pc = "request"
    /\ getCount < 3
    /\ \E r \in {GetApiResponse(response.answer)} :
           /\ pc' = IF r.kind = "exit" /\ response.answer.status_code # 200
                    THEN "request" ELSE After(r, "parse")
           /\ data' = IF r.kind = "return" THEN r.value ELSE data
           /\ out' = out \o r.printed
    /\ getCount' = getCount + 1
    /\ stageLog' = Append(stageLog, "request")
    /\ UNCHANGED <<response, items, results, file>>

\* line 187: data = get_api_response(APP_ID, API_ENDPOINT, params)
Request ==
    /\ pc = "request"
    /\ \E r \in {GetApiResponse(response.answer)} :
           /\ pc' = After(r, "parse")
           /\ data' = IF r.kind = "return" THEN r.value ELSE data
           /\ out' = out \o r.printed
    /\ getCount' = getCount + 1
    /\ stageLog' = Append(stageLog, "request")
    /\ UNCHANGED <<response, items, results, file>>

\* lines 190-193: items = parse_items(data); results = []
Parse ==
    /\ pc = "parse"
    /\ \E r \in {ParseItems(data)} :
           /\ pc' = IF r.kind = "return" THEN LoopStart(r.value) ELSE After(r, "parse")
           /\ items' = IF r.kind = "return" THEN r.value ELSE items
           /\ out' = out \o r.printed
    /\ results' = <<>>
    /\ stageLog' = Append(stageLog, "parse")
    /\ UNCHANGED <<response, data, file, getCount>>

\* lines 194-196: one turn of the loop over items
Transform ==
    /\ pc = "transform"
    /\ \E r \in {ProcessItem(items[Len(results) + 1], response.sys)} :
           /\ results' = IF r.kind = "return" THEN Append(results, r.value) ELSE results
           /\ pc' = After(r, IF Len(results) + 1 = Len(items) THEN "write" ELSE "transform")
    /\ stageLog' = IF Len(results) = 0 THEN Append(stageLog, "transform") ELSE stageLog
    /\ UNCHANGED <<response, data, items, file, out, getCount>>

\* line 199: save_to_excel(results)
Save ==
    /\ pc = "write"
    /\ \E r \in {SaveToExcel(results)} :
           /\ pc' = After(r, "done")
           /\ file' = IF r.kind = "return" THEN r.value ELSE file
           /\ out' = out \o r.printed
    /\ stageLog' = Append(stageLog, "write")
    /\ UNCHANGED <<response, data, items, results, getCount>>

Next == Request \/ Parse \/ Transform \/ Save

Spec == Init /\ [][Next]_vars

\* a sequential program keeps running until it ends
FairSpec == Spec /\ WF_vars(Next)

----------------------------------------------------------------------------
(* process_item on its own: runs of main() whose response carries one entry, *)
(* drawn from every shape of entry the model knows                          *)

With(d, k, v) == (k :> v) @@ d
Without(d, k) == [x \in DOMAIN d \ {k} |-> d[x]]

\* the characters of the shipping-cost numerals drawn (no 5: see RoundedCents)
CostChars == {"0", "7", "."}
CostNumerals == UNION {[1..n -> CostChars] : n \in 0..MaxCostLen}

ListingTypes ==
    { <<"FixedPrice">>, <<"Auction">>, <<"Auction", "WithBIN">>, <<"StoreInventory">>,
      <<"Classified">>, <<"Auction", "/", "FixedPrice">> }

Years == MinYear..MaxYear

\* what each top-level key of an entry may hold, the end times apart
KeyVariants(k) ==
    CASE k \in {"title", "viewItemURL"} -> { <<>>, <<"x">> }
      [] k = "sellingStatus" ->
            { <<>>, <<EmptyDict>>,
              <<[currentPrice |-> <<>>]>>,
              <<[currentPrice |-> <<EmptyDict>>]>>,
              <<[currentPrice |-> <<Value("9.5")>>]>>,
              <<[currentPrice |-> <<"@currencyId" :> "EUR">>]>>,
              <<[currentPrice |-> <<Money("9.5", "EUR")>>]>> }
      [] k = "shippingInfo" ->
            { <<>>, <<EmptyDict>>,
              <<[shippingServiceCost |-> <<>>]>>,
              <<[shippingServiceCost |-> <<EmptyDict>>]>> }
            \cup { <<[shippingServiceCost |-> <<Value(cs)>>]>> : cs \in CostNumerals }
      [] k = "listingInfo" ->
            { <<>>, <<EmptyDict>>, <<[listingType |-> <<>>]>>, <<[endTime |-> <<>>]>>,
              <<[endTime |-> <<EmptyTime>>]>>, <<[endTime |-> <<GarbageTime>>]>> }
            \cup { <<[listingType |-> <<lt>>]>> : lt \in ListingTypes }
            \cup { <<[listingType |-> <<lt>>, endTime |-> <<EmptyTime>>]>> : lt \in ListingTypes }
      [] k = "condition" ->
            { <<>>, <<EmptyDict>>,
              <<[conditionDisplayName |-> <<>>]>>,
              <<[conditionDisplayName |-> <<"New">>]>> }

ItemKeys == {"title", "viewItemURL", "sellingStatus", "shippingInfo", "listingInfo", "condition"}

BaseItem == GoodPool[1]

\* a complete entry whose end time is the stamp e
StampedItem(e) ==
    With(BaseItem, "listingInfo", <<[listingType |-> << <<"Auction">> >>, endTime |-> <<e>>]>>)

\* the response carrying the one entry `it`, on a machine `sys` hours from UTC
OneItem(it, sys) ==
    [answer |-> HttpAnswer(200, TRUE, Envelope(SearchResult(<<it>>))), sys |-> sys]

\* The entries drawn: no key at all; a complete entry; a complete entry with
\* one key dropped or changed; one key only; and, as end time, every hour of
\* every day of the years drawn as a stamp ending in Z (with 59:59 in the
\* months of the clock changes), and hours of a few days as a stamp without
\* a zone, on each machine drawn.
InitItem ==
    /\ pc = "request"
    /\ \/ response \in {OneItem(EmptyDict, 0), OneItem(BaseItem, 0)}
       \/ \E k \in ItemKeys : response = OneItem(Without(BaseItem, k), 0)
       \/ \E k \in ItemKeys : \E v \in KeyVariants(k) :
             \/ response = OneItem(With(BaseItem, k, v), 0)
             \/ response = OneItem(k :> v, 0)
       \/ \E Y \in Years, M \in 1..12, h \in 0..23 : \E D \in 1..DaysInMonth(Y, M) :
             \/ response = OneItem(StampedItem(Stamp(Y, M, D, h, 0, 0, "Z")), 0)
             \/ /\ M \in {3, 11}
                /\ D <= 15
                /\ response = OneItem(StampedItem(Stamp(Y, M, D, h, 59, 59, "Z")), 0)
       \/ \E Y \in Years, md \in {<<1, 1>>, <<3, 9>>, <<12, 31>>}, h \in 0..23, sys \in SysOffsets :
             response = OneItem(StampedItem(Stamp(Y, md[1], md[2], h, 7, 5, "naive")), sys)
    /\ data = None
    /\ items = <<>>
    /\ results = <<>>
    /\ file = NoFile
    /\ out = <<>>
    /\ getCount = 0
    /\ stageLog = <<>>

ItemSpec == InitItem /\ [][Next]_vars

----------------------------------------------------------------------------
(* save_to_excel on its own: called with records whose keys come in any of  *)
(* several orders                                                           *)

Reverse(seq) == [i \in 1..Len(seq) |-> seq[Len(seq) + 1 - i]]
Rotate(seq, k) == [i \in 1..Len(seq) |-> seq[((i + k - 1) % Len(seq)) + 1]]

KeyOrders == {RecordKeys, Reverse(RecordKeys), Rotate(RecordKeys, 3)}

SaveTypes ==
    { <<"FixedPrice">>, <<"Auction">>, <<"Auction", "WithBIN">>, <<"N/A">>,
      <<"Auction", "/", "FixedPrice">> }

SaveRecord(order, type) ==
    [keys |-> order,
     vals |-> [ProcessItem(BaseItem, 0).value.vals EXCEPT !["Listing Type"] = type]]

SaveRecords == {SaveRecord(o, t) : o \in KeyOrders, t \in SaveTypes}

SaveInputs == UNION {[1..n -> SaveRecords] : n \in 0..MaxRows}

InitSave ==
    /\ pc = "write"
    /\ response = [answer |-> [kind |-> "none"], sys |-> 0]
    /\ data = None
    /\ items = <<>>
    /\ results \in SaveInputs
    /\ file = NoFile
    /\ out = <<>>
    /\ getCount = 0
    /\ stageLog = <<>>

SaveSpec == InitSave /\ [][Save]_vars

----------------------------------------------------------------------------
(* What the properties below read off a state *)

Answer == response.answer
Terminated == pc \in {"done", "exited", "crashed"}
AllStages == <<"request", "parse", "transform", "write">>
IsPrefixOf(a, b) == Len(a) <= Len(b) /\ \A i \in 1..Len(a) : a[i] = b[i]
Ran(stage) == \E i \in 1..Len(stageLog) : stageLog[i] = stage
LastLine == out[Len(out)]

\* the answer is a 200 whose body decodes
Decoded == Answer.kind = "http" /\ Answer.status_code = 200 /\ Answer.is_json
HasEnvelope == Decoded /\ "findItemsAdvancedResponse" \in DOMAIN Answer.json
EnvelopeBody == Answer.json["findItemsAdvancedResponse"][1]
HasErrorMessage ==
    /\ HasEnvelope
    /\ Len(Answer.json["findItemsAdvancedResponse"]) > 0
    /\ "errorMessage" \in DOMAIN EnvelopeBody
HasSearchResult ==
    /\ HasEnvelope
    /\ Len(Answer.json["findItemsAdvancedResponse"]) > 0
    /\ "errorMessage" \notin DOMAIN EnvelopeBody
    /\ "searchResult" \in DOMAIN EnvelopeBody
    /\ Len(EnvelopeBody["searchResult"]) > 0
\* the item list of the response, empty when the 'item' key is absent
ResponseItems ==
    IF "item" \in DOMAIN EnvelopeBody["searchResult"][1]
    THEN EnvelopeBody["searchResult"][1]["item"] ELSE <<>>

\* the run ended by exit() in `stage`, right after printing `line`, with no
\* later stage run and nothing written
ExitedIn(stage, line) ==
    /\ pc = "exited"
    /\ stageLog[Len(stageLog)] = stage
    /\ Len(out) > 0 /\ LastLine = line
    /\ file = NoFile
    /\ results = <<>>

\* parse_items has returned in this run
ParseReturned == Ran("parse") /\ (pc \in {"transform", "write", "done"} \/ Ran("transform"))

----------------------------------------------------------------------------
(* C1: every detected error condition (HTTP status other than 200, a body   *)
(* that is not JSON, no 'findItemsAdvancedResponse' envelope, an envelope   *)
(* with 'errorMessage', an empty result list) ends the run at the stage     *)
(* that detects it, with a message printed, no later stage run and no       *)
(* spreadsheet written; and a spreadsheet is written only when the request, *)
(* the parse and the normalization of every item all completed.             *)
C1_PrintAndExit ==
    /\ (Ran("request") /\ Answer.kind = "http" /\ Answer.status_code # 200)
          => ExitedIn("request", <<"HTTP Error:", Answer.status_code>>)
    /\ (Ran("request") /\ Answer.kind = "http" /\ Answer.status_code = 200 /\ ~Answer.is_json)
          => ExitedIn("request", <<"Error parsing JSON response:">>)
    /\ (Ran("parse") /\ ~HasEnvelope)
          => ExitedIn("parse", <<"Unexpected response format.">>)
    /\ (Ran("parse") /\ HasErrorMessage)
          => /\ pc = "exited" /\ stageLog = <<"request", "parse">>
             /\ Len(out) > 1 /\ LastLine[1] = "Error Code:"
             /\ file = NoFile /\ results = <<>>
    /\ (Ran("parse") /\ HasSearchResult /\ Len(ResponseItems) = 0)
          => ExitedIn("parse", <<"No items found matching your criteria.">>)
    /\ file # NoFile
          => /\ Decoded /\ HasSearchResult /\ Len(ResponseItems) > 0
             /\ stageLog = AllStages
             /\ pc = "done"
             /\ Len(results) = Len(items)
             /\ \A i \in 1..Len(items) : ProcessItem(items[i], response.sys).kind = "return"

C1_Witness ==
    /\ pc = "exited"
    /\ stageLog = <<"request", "parse">>
    /\ HasErrorMessage
    /\ file = NoFile

----------------------------------------------------------------------------
(* C2: a run of main is one linear pass that ends: one HTTP GET and no      *)
(* more, the stages only in the order request, parse, transform, write,     *)
(* none entered twice, the file written at most once.                       *)
C2_LinearPass ==
    /\ [](/\ IsPrefixOf(stageLog, AllStages)
          /\ getCount <= 1
          /\ (pc # "request" => getCount = 1)
          /\ (file # NoFile => stageLog = AllStages))
    /\ [][file' # file => (file = NoFile /\ pc = "write")]_vars
    /\ <>Terminated

C2_Witness == pc = "done" /\ stageLog = AllStages /\ getCount = 1 /\ file # NoFile

----------------------------------------------------------------------------
(* C5: in a run that writes the spreadsheet, the data rows are as many as   *)
(* the items parse_items returned (1 to 50), one row per item, in the order *)
(* of the items in the API response.                                        *)
C5_RowPerItem ==
    file # NoFile =>
        LET n == Len(file.cells) - 1
        IN  /\ n = Len(items)
            /\ n >= 1 /\ n <= 50
            /\ n = Min(Len(ResponseItems), 50)
            /\ \A i \in 1..n :
                 LET rec == ProcessItem(ResponseItems[i], response.sys).value.vals
                 IN  \A j \in 1..Len(file.cells[1]) :
                        file.cells[i + 1][j] = rec[file.cells[1][j]]

C5_Witness == file # NoFile /\ Len(ResponseItems) > 50 /\ Len(file.cells) = 51

----------------------------------------------------------------------------
(* C9: parse_items returns only when the response has the envelope, the     *)
(* envelope has no 'errorMessage' and the search result has an item; what   *)
(* it returns is the first min(n, 50) items of the response, in order.  An  *)
(* 'errorMessage' wins: parse_items exits even if items are there too.      *)
C9_ParseItems ==
    /\ ParseReturned =>
         /\ HasSearchResult
         /\ Len(ResponseItems) >= 1
         /\ Len(items) = Min(Len(ResponseItems), 50)
         /\ \A i \in 1..Len(items) : items[i] = ResponseItems[i]
    /\ (Ran("parse") /\ HasErrorMessage) => (pc = "exited" /\ items = <<>>)

C9_Witness == ParseReturned /\ Len(ResponseItems) > 50 /\ Len(items) = 50 /\ file = NoFile

----------------------------------------------------------------------------
(* C10: main never calls save_to_excel with an empty result list: the       *)
(* 'No data to save to Excel.' exit is never taken, and every call reaches  *)
(* the file write.                                                          *)
C10_SaveNeverEmpty ==
    /\ pc = "write" => Len(results) >= 1
    /\ Ran("write") =>
         /\ pc = "done"
         /\ file # NoFile
         /\ LastLine # <<"No data to save to Excel.">>

C10_Witness == Ran("write") /\ pc = "done" /\ Len(results) = 1

----------------------------------------------------------------------------
(* What the properties of process_item read off an entry *)

\* the keys whose value is a plain string; every other value is a list
ScalarKeys == {"__value__", "@currencyId"}

\* the value at the end of `path` in the entry, as a list of one; <<>> when a
\* key of the path is not there or a list on the way has no element
RECURSIVE Find(_, _)
Find(node, path) ==
    IF Len(path) = 0 THEN <<node>>
    ELSE IF path[1] \notin DOMAIN node THEN <<>>
    ELSE IF path[1] \in ScalarKeys THEN <<node[path[1]]>>
    ELSE IF Len(node[path[1]]) = 0 THEN <<>>
    ELSE Find(node[path[1]][1], Tail(path))

\* where the data of each field of the record lies in an entry
FieldPath(field) ==
    CASE field = "Title" -> <<"title">>
      [] field = "URL" -> <<"viewItemURL">>
      [] field = "Price" -> <<"sellingStatus", "currentPrice", "__value__">>
      [] field = "Currency" -> <<"sellingStatus", "currentPrice", "@currencyId">>
      [] field = "Shipping Price" -> <<"shippingInfo", "shippingServiceCost", "__value__">>
      [] field = "Listing Type" -> <<"listingInfo", "listingType">>
      [] field = "Item Condition" -> <<"condition", "conditionDisplayName">>
      [] field = "End Time" -> <<"listingInfo", "endTime">>

EightKeys == {"Title", "Price", "Currency", "Shipping Price", "Listing Type",
              "Item Condition", "End Time", "URL"}

\* the text 'N/A' in the form the model keeps the field's text in
NotAvailable(field) ==
    CASE field \in {"Shipping Price", "End Time"} -> <<"N", "/", "A">>
      [] field = "Listing Type" -> <<"N/A">>
      [] OTHER -> "N/A"

\* the end time of an entry counts as missing too when it is the empty string
Missing(item, field) ==
    LET found == Find(item, FieldPath(field))
    IN  \/ Len(found) = 0
        \/ field = "End Time" /\ found[1].kind = "empty"

\* process_item raised on the entry it was called with
TransformCrashed == pc = "crashed" /\ Ran("transform")

----------------------------------------------------------------------------
(* C3: for every raw result entry process_item returns a flat record with   *)
(* exactly the eight keys Title, Price, Currency, Shipping Price, Listing   *)
(* Type, Item Condition, End Time and URL, and every field whose data is    *)
(* missing from the entry, at any nesting level, is 'N/A': no entry makes   *)
(* process_item fail.                                                       *)
C3_FlatRecord ==
    /\ ~TransformCrashed
    /\ \A i \in 1..Len(results) :
         /\ Len(results[i].keys) = 8
         /\ Range(results[i].keys) = EightKeys
         /\ DOMAIN results[i].vals = EightKeys
         /\ \A field \in EightKeys :
              Missing(items[i], field) => results[i].vals[field] = NotAvailable(field)

----------------------------------------------------------------------------
(* C4: the Shipping Price of a record is 'FREE' whenever the shipping       *)
(* service cost of its entry denotes a zero cost, the cost with exactly two *)
(* decimals (and never 'FREE') whenever the cost is not zero, and 'N/A'     *)
(* when the entry has no shipping cost.                                     *)

Digits == {"0", "1", "2", "3", "4", "5", "6", "7", "8", "9"}

\* a decimal numeral: digits with at most one point, one digit at least
IsNumeral(cs) ==
    /\ \E i \in 1..Len(cs) : cs[i] \in Digits
    /\ \A i \in 1..Len(cs) : cs[i] \in Digits \cup {"."}
    /\ Cardinality({i \in 1..Len(cs) : cs[i] = "."}) <= 1

\* the numeral has no digit other than 0
DenotesZero(cs) == \A i \in 1..Len(cs) : cs[i] \in {"0", "."}

\* digits, a point, two digits
HasTwoDecimals(cs) ==
    /\ Len(cs) >= 4
    /\ cs[Len(cs) - 2] = "."
    /\ \A i \in 1..Len(cs) : i # Len(cs) - 2 => cs[i] \in Digits

C4_ShippingPrice ==
    \A i \in 1..Len(results) :
        LET cost == Find(items[i], FieldPath("Shipping Price"))
            shown == results[i].vals["Shipping Price"]
        IN  /\ Len(cost) = 0 => shown = <<"N", "/", "A">>
            /\ (Len(cost) = 1 /\ IsNumeral(cost[1]) /\ DenotesZero(cost[1]))
                  => shown = <<"F", "R", "E", "E">>
            /\ (Len(cost) = 1 /\ IsNumeral(cost[1]) /\ ~DenotesZero(cost[1]))
                  => (shown # <<"F", "R", "E", "E">> /\ HasTwoDecimals(shown))

----------------------------------------------------------------------------
(* What the property of the end time reads off a rendered time *)

\* the number written by the characters first..last of cs
Number(cs, first, last) == DigitsVal(SubSeq(cs, first, last))

\* cs has the shape 'YYYY-MM-DD hh:MM:SS AM' or '... PM'
IsTimeText(cs) ==
    /\ Len(cs) = 22
    /\ cs[5] = "-" /\ cs[8] = "-" /\ cs[11] = " "
    /\ cs[14] = ":" /\ cs[17] = ":" /\ cs[20] = " "
    /\ \A i \in (1..19) \ {5, 8, 11, 14, 17} : cs[i] \in Digits
    /\ cs[21] \in {"A", "P"} /\ cs[22] = "M"

\* the wall-clock time a text of that shape shows, the hour out of 24
Shown(cs) ==
    [Y |-> Number(cs, 1, 4), M |-> Number(cs, 6, 7), D |-> Number(cs, 9, 10),
     h |-> (Number(cs, 12, 13) % 12) + (IF cs[21] = "P" THEN 12 ELSE 0),
     m |-> Number(cs, 15, 16), s |-> Number(cs, 18, 19)]

\* day of the week, 0 for Sunday
Weekday(y, m, d) ==
    LET t == <<0, 3, 2, 5, 0, 3, 5, 1, 4, 6, 2, 4>>
        yy == IF m < 3 THEN y - 1 ELSE y
    IN  (yy + (yy \div 4) - (yy \div 100) + (yy \div 400) + t[m] + d) % 7

\* US daylight time runs from the second Sunday of March, 2 a.m. standard
\* time (08:00 UTC), to the first Sunday of November, 2 a.m. daylight time
\* (07:00 UTC)
InDaylightTime(utc) ==
    LET start == CHOOSE d \in 8..14 : Weekday(utc.Y, 3, d) = 0
        end == CHOOSE d \in 1..7 : Weekday(utc.Y, 11, d) = 0
        at == (utc.M * 10000) + (utc.D * 100) + utc.h
    IN  at >= 30000 + (start * 100) + 8 /\ at < 110000 + (end * 100) + 7

\* the wall-clock time `hours` hours (fewer than 24) after t
Later(t, hours) ==
    LET carry == IF t.h + hours >= 24 THEN 1 ELSE 0
        lastDay == t.D + carry > DaysInMonth(t.Y, t.M)
        lastMonth == lastDay /\ t.M = 12
    IN  [Y |-> IF lastMonth THEN t.Y + 1 ELSE t.Y,
         M |-> IF lastMonth THEN 1 ELSE IF lastDay THEN t.M + 1 ELSE t.M,
         D |-> IF lastDay THEN 1 ELSE t.D + carry,
         h |-> (t.h + hours) % 24,
         m |-> t.m, s |-> t.s]

\* cs shows, in 12-hour form, the US/Central wall-clock time of the instant utc
IsCentralTimeOf(cs, utc) ==
    /\ IsTimeText(cs)
    /\ Number(cs, 12, 13) \in 1..12
    /\ Shown(cs).M \in 1..12
    /\ Shown(cs).D \in 1..DaysInMonth(Shown(cs).Y, Shown(cs).M)
    /\ Later(Shown(cs), IF InDaylightTime(utc) THEN 5 ELSE 6) = utc

----------------------------------------------------------------------------
----------------------------------------------------------------------------
(* C6: the spreadsheet save_to_excel writes has its columns in the fixed    *)
(* order Title, Price, Currency, Shipping Price, Listing Type, Item         *)
(* Condition, End Time, URL, whatever the key order of the records it is    *)
(* given, with one header row followed by the data rows.                    *)
C6_ColumnOrder ==
    file # NoFile =>
        /\ file.cells[1] = <<"Title", "Price", "Currency", "Shipping Price",
                             "Listing Type", "Item Condition", "End Time", "URL">>
        /\ Len(file.cells) = Len(results) + 1
        /\ \A r \in 2..Len(file.cells) :
             /\ Len(file.cells[r]) = 8
             /\ file.cells[r] # file.cells[1]
             /\ \A c \in 1..8 : file.cells[r][c] = results[r - 1].vals[file.cells[1][c]]

\* records whose keys come in two orders, neither of them the order of the sheet
C6_Witness ==
    /\ file # NoFile
    /\ Len(results) >= 2
    /\ results[1].keys # results[2].keys
    /\ results[1].keys # file.cells[1]
    /\ results[2].keys # file.cells[1]

----------------------------------------------------------------------------
(* What the property of the highlighting reads off the workbook, as the     *)
(* spreadsheet program shows it                                             *)

\* the number of the column a column letter names (A is 1)
RECURSIVE ColumnNumber(_)
ColumnNumber(letters) ==
    IF Len(letters) = 0 THEN 0
    ELSE 26 * ColumnNumber(SubSeq(letters, 1, Len(letters) - 1))
         + (CHOOSE k \in 1..26 : Letters[k] = letters[Len(letters)])

\* the cell in row r (the header is row 1) and column c lies in the range
InRange(range, r, c) ==
    /\ range.first_row <= r /\ r <= range.last_row
    /\ ColumnNumber(range.first_col) <= c /\ c <= ColumnNumber(range.last_col)

\* the cells of the sheet and of one row and one column around it
Grid == (1..(Len(file.cells) + 1)) \X (1..9)

Covered(rule) == {cell \in Grid : InRange(rule.range, cell[1], cell[2])}

\* a text rule with criteria 'containing' holds of a text made of `pieces`
Holds(rule, pieces) ==
    /\ rule.type = "text" /\ rule.criteria = "containing"
    /\ \E k \in 1..Len(pieces) : pieces[k] = rule.value

\* What the cell shows for a property of the format: that of the first rule,
\* in the order the rules were added, that holds of the cell and sets the
\* property; "default" when there is none.
Displayed(r, c, property) ==
    LET hits == {f \in 1..Len(file.conditional) :
                    /\ InRange(file.conditional[f].range, r, c)
                    /\ Holds(file.conditional[f], file.cells[r][c])
                    /\ property \in DOMAIN file.conditional[f].format}
    IN  IF hits = {} THEN "default"
        ELSE file.conditional[CHOOSE f \in hits : \A g \in hits : f <= g].format[property]

Highlight(r, c) == <<Displayed(r, c, "bg_color"), Displayed(r, c, "font_color")>>

Green == <<"#C6EFCE", "#006100">>
Yellow == <<"#FFEB9C", "#9C6500">>
Plain == <<"default", "default">>

----------------------------------------------------------------------------
(* C7: conditional highlighting covers exactly the data cells of the        *)
(* Listing Type column, column E, rows 2 to n+1 for n data rows: never the  *)
(* header row, never another column.  A cell whose listing type is          *)
(* 'FixedPrice' is shown green, one whose listing type is 'Auction' is      *)
(* shown yellow, and no cell is shown with both highlights.                 *)
C7_Highlighting ==
    file # NoFile =>
        /\ Len(file.conditional) = 2
        /\ \A f \in 1..Len(file.conditional) :
             Covered(file.conditional[f]) = {<<r, 5>> : r \in 2..(Len(results) + 1)}
        /\ file.cells[1][5] = "Listing Type"
        /\ \A r \in 2..(Len(results) + 1) :
             /\ file.cells[r][5] = <<"FixedPrice">> => Highlight(r, 5) = Green
             /\ file.cells[r][5] = <<"Auction">> => Highlight(r, 5) = Yellow
             /\ Highlight(r, 5) \in {Plain, Green, Yellow}

\* a sheet with a green cell, a yellow cell, a plain cell and a cell that
\* both rules hold of
C7_Witness ==
    /\ file # NoFile
    /\ \E r \in 2..Len(file.cells) : file.cells[r][5] = <<"FixedPrice">>
    /\ \E r \in 2..Len(file.cells) : file.cells[r][5] = <<"Auction">>
    /\ \E r \in 2..Len(file.cells) :
          /\ Highlight(r, 5) # Plain
          /\ file.cells[r][5] \notin {<<"FixedPrice">>, <<"Auction">>}

====
